---- MODULE Spec2Model ----
(***************************************************************************)
(* Model of the request coordinator of src/handlers/hackrx.py: run_hackrx  *)
(* downloads and hashes a document, consults the ledger meta.json under    *)
(* file_lock, stores new content as document<id><ext>, publishes a work    *)
(* event on the Redis channel and blocks in wait_for_result until a        *)
(* matching result event arrives.                                          *)
(*                                                                         *)
(* Every request runs in its own thread; a step of the model is one shared *)
(* access (lock, meta.json, downloads directory, channel) of one request.  *)
(* A message handed to the channel reaches every open subscription; the    *)
(* waiter runs the body of its listen() loop for it in a later step of its *)
(* own thread.                                                             *)
(***************************************************************************)
EXTENDS Integers, Sequences, FiniteSets, Bags, TLC

(* ---- bounds ---- *)
NumReq == 2          \* concurrent run_hackrx requests
MaxInbox == 1        \* unread messages beyond which no outside client publishes

Reqs == 1..NumReq

\* sha256 digests of the documents: at most one distinct content per request
Hashes == 1..NumReq

\* the digest of a document an earlier run of the service was given
OldHash == NumReq + 1

AllHashes == Hashes \cup {OldHash}
NoOwner == 0

\* determine_file_extension returns '' (no hint) or an extension with its dot
Exts == {"", ".txt"}

VARIABLES
    pc,             \* position of each request in run_hackrx
    file_hash,      \* file_hash local of each request (0 before the download)
    extension,      \* what determine_file_extension returned for the request
    temp_filepath,  \* TRUE while the local temp_filepath is not None
    temp_exists,    \* TRUE while the request's temp file exists on disk
    metadata,       \* the metadata dict the request loaded (and updates)
    final_name,     \* new_generic_filename of the request ("" when none)
    raised,         \* exception raised inside the try block ("" when none)
    response,       \* HTTP status the caller receives (0 while running)
    answers,        \* "answers" of the response body (NoAnswers when none)
    file_lock,      \* owner of threading.Lock file_lock, NoOwner when free
    meta,           \* downloads/meta.json on disk
    store,          \* files of the downloads directory: name -> content hash
    expired,        \* time.time() - start_time > timeout for the waiter
    sent,           \* work events r.publish has put on the channel
    inbox,          \* messages each subscription received, not yet read
    printed         \* last line a running request printed about the channel

vars == <<pc, file_hash, extension, temp_filepath, temp_exists, metadata,
          final_name, raised, response, answers, file_lock, meta, store,
          expired, sent, inbox, printed>>

\* save_metadata followed by get_or_create_metadata on one directory
VARIABLES
    rt_pc,          \* "save", "load", "loaded" or "failed"
    rt_ledger,      \* the dict handed to save_metadata
    rt_file,        \* downloads/meta.json as the two functions see it
    rt_loaded       \* what get_or_create_metadata returned

rtvars == <<rt_pc, rt_ledger, rt_file, rt_loaded>>

\* run_hackrx of src/handler/hackrx.py: the handler that computes the answers
\* itself (process_questions_parallel) and notifies Discord
VARIABLES
    nh_pc,          \* position of the request in that run_hackrx
    nh_questions,   \* req.questions
    nh_futures,     \* indices of the submitted questions not yet completed
    nh_results,     \* the results list of process_questions_parallel
    nh_answers,     \* answers returned to the caller (<<>> when none)
    nh_raised,      \* exception raised inside run_hackrx ("" when none)
    nh_response,    \* HTTP status the caller receives (0 while running)
    nh_webhook,     \* TRUE when DISCORD_WEBHOOK_URL2 is configured
    nh_discord,     \* outcome of the last notification ("none" before any)
    nh_temp_file,   \* TRUE while the local temp_file is not None
    nh_temp_exists  \* TRUE while the downloaded temp file exists on disk

nhvars == <<nh_pc, nh_questions, nh_futures, nh_results, nh_answers, nh_raised,
            nh_response, nh_webhook, nh_discord, nh_temp_file, nh_temp_exists>>

\* what no step of the request coordinator touches
othervars == <<rtvars, nhvars>>

(* ---- finite maps (Python dicts, directory listings) ---- *)
EmptyMap == [k \in {} |-> 0]

Put(f, k, v) == [x \in DOMAIN f \cup {k} |-> IF x = k THEN v ELSE f[x]]

(* ---- JSON values as json.dump writes them and json.load parses them ---- *)
JNull == [j |-> "null"]
JNumber(n) == [j |-> "number", n |-> n]
JString(s) == [j |-> "string", s |-> s]
JArray(items) == [j |-> "array", items |-> items]
JObject(members) == [j |-> "object", members |-> members]

(* ---- the ledger ---- *)
\* {"files_by_hash": {}, "next_id": 1}
FreshMetadata == [files_by_hash |-> EmptyMap, next_id |-> 1]

AbsentFile == [kind |-> "absent"]
\* meta.json holds text json.load rejects with JSONDecodeError (empty file,
\* truncated document, stray characters)
InvalidJson == [kind |-> "invalid_json"]
\* meta.json holds a JSON object, list or string without "files_by_hash"
LegacyObject == [kind |-> "legacy"]
LedgerFile(m) == [kind |-> "ledger", content |-> m]
\* meta.json exists but open(meta_path, 'r') is refused
UnreadableFile == [kind |-> "unreadable"]
\* meta.json holds valid JSON that is a number (or null, true), not an object
NumberJson == [kind |-> "json_number"]
\* meta.json holds bytes that are not UTF-8 text (ff fe 7b ...)
UndecodableFile == [kind |-> "not_utf8"]
\* meta.json holds brackets nested deeper than the parser's recursion limit
DeepJson == [kind |-> "json_too_deep"]
\* meta.json holds a JSON integer of more digits than int() converts
HugeNumberJson == [kind |-> "json_huge_number"]
\* the path meta.json names a directory
DirectoryFile == [kind |-> "directory"]
\* meta.json holds a JSON string or list that contains "files_by_hash"
KeyInNonObject == [kind |-> "key_in_non_object"]
\* meta.json holds an object whose "files_by_hash" is a number
FilesNumber == [kind |-> "files_by_hash_number"]

\* A JSON object with "files_by_hash" is LedgerFile(m), m being the dict
\* json.load makes of it:
\*   m.files_by_hash   the entries, digest -> entry; an entry is the dict
\*                     {"generic_filename": name}, or {} when the name is
\*                     missing
\*   m.next_id         present when the object has an integer "next_id"
\*   m.next_id_text    present when "next_id" is no number: its str(), "x"
\*                     for the string "x" and "None" for null
\*   m.files           present, as "list", when "files_by_hash" is a list;
\*                     m.files_by_hash then maps the strings the list holds
\*                     to {}
NamelessEntry == EmptyMap

\* the ledger an earlier run left with the file it names
EarlierLedger ==
    [files_by_hash |-> (OldHash :> [generic_filename |-> "document5.pdf"]),
     next_id |-> 6]

\* {"files_by_hash": {}, "next_id": "x"} and {"files_by_hash": {}, "next_id": null}
TextIdLedger(t) == [files_by_hash |-> EmptyMap, next_id_text |-> t]

\* {"files_by_hash": {<old digest>: {}}, "next_id": 6}
NamelessLedger == [files_by_hash |-> (OldHash :> NamelessEntry), next_id |-> 6]

\* {"files_by_hash": [], "next_id": 5}
ListLedger == [files_by_hash |-> EmptyMap, next_id |-> 5, files |-> "list"]

\* {"files_by_hash": [<old digest>]}
ListWithDigest == [files_by_hash |-> (OldHash :> NamelessEntry), files |-> "list"]

\* the downloads directory as an earlier run left it
Dir(f, files) == [meta |-> f, store |-> files]

EarlierFile(name) == name :> OldHash

\* what the first request can find: no directory or an empty one, a
\* meta.json that is damaged or of another shape, the ledger of an earlier
\* run with its file, a stored file whose ledger was lost
InitialDirs ==
    {Dir(f, EmptyMap) :
        f \in {AbsentFile, InvalidJson, LegacyObject, UnreadableFile, NumberJson,
               UndecodableFile, DeepJson, HugeNumberJson, DirectoryFile,
               KeyInNonObject, FilesNumber,
               LedgerFile(TextIdLedger("x")), LedgerFile(TextIdLedger("None")),
               LedgerFile(ListLedger)}}
    \cup {Dir(LedgerFile(m), EarlierFile("document5.pdf")) :
            m \in {EarlierLedger, NamelessLedger, ListWithDigest}}
    \cup {Dir(InvalidJson, EarlierFile("document1.pdf"))}

\* what leaves get_or_create_metadata as an exception ("" when nothing does):
\* the except clause of line 119 names FileNotFoundError and JSONDecodeError
\* only; open() raises PermissionError for an unreadable file and
\* IsADirectoryError for a directory, f.read() inside json.load raises
\* UnicodeDecodeError for bytes that are not UTF-8, the parser raises
\* RecursionError for too deep a nesting and ValueError for an integer of
\* too many digits, and the test of line 116 raises TypeError when json.load
\* returned a number
LoadError(f) ==
    IF f.kind = "unreadable" THEN "PermissionError"
    ELSE IF f.kind = "directory" THEN "IsADirectoryError"
    ELSE IF f.kind = "not_utf8" THEN "UnicodeDecodeError"
    ELSE IF f.kind = "json_too_deep" THEN "RecursionError"
    ELSE IF f.kind = "json_huge_number" THEN "ValueError"
    ELSE IF f.kind = "json_number" THEN "TypeError"
    ELSE ""

\* what get_or_create_metadata returns as it was read, not being a dict
ValueRead(f) == [value |-> f.kind]

\* variant: the re-initialised ledger starts its ids at 0
get_or_create_metadata_from_zero(f) ==
    IF f.kind = "ledger" THEN f.content
    ELSE IF f.kind \in {"key_in_non_object", "files_by_hash_number"}
    THEN ValueRead(f)
    ELSE [files_by_hash |-> EmptyMap, next_id |-> 0]

\* get_or_create_metadata where LoadError(f) = "": FileNotFoundError and
\* JSONDecodeError are caught, a value lacking "files_by_hash" is
\* re-initialised, any other value is returned as json.load made it
get_or_create_metadata(f) ==
    IF f.kind = "ledger" THEN f.content
    ELSE IF f.kind \in {"key_in_non_object", "files_by_hash_number"}
    THEN ValueRead(f)
    ELSE FreshMetadata

\* what lines 199-202 raise for digest h on the value m that
\* get_or_create_metadata returned ("" when nothing): a string or a list has
\* no get (AttributeError, line 199), 'file_hash in 5' is a TypeError (line
\* 199); a list that holds h is not indexed by it (TypeError, line 201) and
\* an entry without name has no "generic_filename" (KeyError, line 202)
LookupError(m, h) ==
    IF "value" \in DOMAIN m
    THEN (IF m.value = "key_in_non_object" THEN "AttributeError" ELSE "TypeError")
    ELSE IF h \notin DOMAIN m.files_by_hash THEN ""
    ELSE IF "files" \in DOMAIN m THEN "TypeError"
    ELSE IF "generic_filename" \notin DOMAIN m.files_by_hash[h] THEN "KeyError"
    ELSE ""

\* line 215: metadata.get("next_id", 1)
NextId(m) == IF "next_id" \in DOMAIN m THEN m.next_id ELSE 1

\* str(next_id) as the f-string of line 216 formats it
IdText(m) ==
    IF "next_id_text" \in DOMAIN m THEN m.next_id_text ELSE ToString(NextId(m))

\* what lines 222-225 raise on the loaded dict m ("" when nothing): a list
\* is not indexed by a digest (line 222), and a next_id that is a string or
\* None cannot be added to 1 (line 225)
UpdateError(m) ==
    IF "files" \in DOMAIN m \/ "next_id_text" \in DOMAIN m THEN "TypeError" ELSE ""

\* variant: the lookup never finds the hash
IsDuplicateNever(h, m) == FALSE

\* line 199: file_hash in metadata.get("files_by_hash", {})
IsDuplicate(h, m) == h \in DOMAIN m.files_by_hash

DefaultExtension == ".pdf"

\* variant: no default extension
NewGenericFilenameNoDefault(next_id, ext) ==
    "document" \o next_id \o ext

\* line 216: f"document{next_id}{extension or '.pdf'}", next_id as text
NewGenericFilename(next_id, ext) ==
    "document" \o next_id \o (IF ext = "" THEN DefaultExtension ELSE ext)

\* os.path.join(downloads_dir, filename)
JoinPath(name) == "downloads/" \o name

\* lines 222-225
UpdateMetadata(m, h, name) ==
    [files_by_hash |-> Put(m.files_by_hash, h, [generic_filename |-> name]),
     next_id |-> NextId(m) + 1]

\* what shutil.move can leave at the destination when it raises, besides
\* nothing: the part copied before the copy broke (it has no digest of a
\* document), or the whole copy when only the removal of the source failed
PartialContent == 0

MoveLeavings(h) == {PartialContent, h}

\* variant: the ledger is written before the move is tried
MetaSavedBeforeMove(f, m, h, name) == LedgerFile(UpdateMetadata(m, h, name))

\* lines 218-227: save_metadata is called after save_new_file has returned,
\* a raise of shutil.move leaves meta.json f as it is
MetaAfterFailedMove(f, m, h, name) == f

(* ---- the except clauses of run_hackrx, lines 240-249 ---- *)
\* variant: every exception is answered with 500
HandlerStatusAlways500(exc) == 500

HandlerStatus(exc) == IF exc = "RequestException" THEN 400 ELSE 500

(* ---- what publish_file_event and wait_for_result print ---- *)
PublishedLine == "Published run_hackrx event to Redis"                \* line 147
PublishFailedLine == "Failed to publish event to Redis"               \* line 149
WaitingLine == "Waiting for 'result' event"                           \* line 160

\* variant: the except clause of publish_file_event catches nothing
PublishCatchesNothing == FALSE

\* line 148: except Exception catches whatever r.publish or json.dumps raises
PublishCatches == TRUE

(* ---- the lock ---- *)
\* with file_lock blocks until no thread holds the lock
LockFree == file_lock = NoOwner

\* variant: an exception leaves the lock with its holder
ReleasedNever(p) == file_lock

\* leaving the with block (normally or by an exception) releases the lock
Released(p) == IF file_lock = p THEN NoOwner ELSE file_lock

(* ---- the channel ---- *)
WorkEvent(h, path) == [event_type |-> "run_hackrx", filehash |-> h, filepath |-> path]

\* a result as wait_for_result reads it: event_type, filehash and
\* result_data.get("answers", []), so a result without answers reads as []
ResultEvent(h, a) == [answers |-> a, event_type |-> "result", filehash |-> h]

\* what result events carry as "answers": a list of strings, or a value
\* that is no list (null, a number)
AnswerValues == {JArray(<<>>), JArray(<<"answer 1">>), JNull, JNumber(5)}

\* no response body
NoAnswers == [j |-> "none"]

\* len(answers) of line 237 is defined
HasLen(a) == a.j \in {"array", "string", "object"}

\* a payload json.loads rejects or that is no JSON object: line 165 or 166
\* raises and except Exception: pass (lines 170-171) drops it
Unparseable == [event_type |-> "unparseable", filehash |-> 0]

\* variant: the subscription exists from the publish on
SubscribedSincePublish(q) == pc[q] \in {"subscribe", "wait"}

Subscribed(q) == pc[q] = "wait"

\* variant: the filehash of a result is not compared
MatchesAnyHash(data, h) == data.event_type = "result"

\* line 166
Matches(data, h) == data.event_type = "result" /\ data.filehash = h

\* lines 162-177 for one message of type "message" yielded to waiter q:
\* a match is returned before the clock is looked at; the clock is looked at
\* only after a message that does not match
LoopOutcome(q, data) ==
    IF Matches(data, file_hash[q]) THEN "return"
    ELSE IF expired[q] THEN "timeout"
    ELSE "continue"

\* r.publish hands the payload to every subscription that is open
Delivered(data) ==
    [q \in Reqs |-> IF Subscribed(q) THEN Append(inbox[q], data) ELSE inbox[q]]

\* no open subscription holds MaxInbox unread messages or more
Room == \A q \in Reqs : Subscribed(q) => Len(inbox[q]) < MaxInbox

HandlerInit ==
    /\ pc = [p \in Reqs |-> "start"]
    /\ file_hash = [p \in Reqs |-> 0]
    /\ extension = [p \in Reqs |-> ""]
    /\ temp_filepath = [p \in Reqs |-> FALSE]
    /\ temp_exists = [p \in Reqs |-> FALSE]
    /\ metadata = [p \in Reqs |-> FreshMetadata]
    /\ final_name = [p \in Reqs |-> ""]
    /\ raised = [p \in Reqs |-> ""]
    /\ response = [p \in Reqs |-> 0]
    /\ answers = [p \in Reqs |-> NoAnswers]
    /\ file_lock = NoOwner
    /\ \E d \in InitialDirs : meta = d.meta /\ store = d.store
    /\ expired = [p \in Reqs |-> FALSE]
    /\ sent = EmptyBag
    /\ inbox = [p \in Reqs |-> <<>>]
    /\ printed = [p \in Reqs |-> ""]

\* no request is being served
HandlerIdle == HandlerInit /\ meta = AbsentFile /\ store = EmptyMap

\* no save/load sequence is under way
RoundTripIdle ==
    /\ rt_pc = "loaded"
    /\ rt_ledger = FreshMetadata
    /\ rt_file = AbsentFile
    /\ rt_loaded = FreshMetadata

\* the notifying handler serves no request
NotifyingIdle ==
    /\ nh_pc = "done"
    /\ nh_questions = <<>>
    /\ nh_futures = {}
    /\ nh_results = <<>>
    /\ nh_answers = <<>>
    /\ nh_raised = ""
    /\ nh_response = 0
    /\ nh_webhook = FALSE
    /\ nh_discord = "none"
    /\ nh_temp_file = FALSE
    /\ nh_temp_exists = FALSE

Init == HandlerInit /\ RoundTripIdle /\ NotifyingIdle

\* run_hackrx is left by request p: its locals (the loaded dict, the waiter's
\* clock) are gone
Left(p) == [metadata EXCEPT ![p] = FreshMetadata]

\* cleanup_temp_file(temp_filepath), lines 133-138: what is left of the temp
\* file afterwards. The file the local names is removed; when os.remove
\* raises, the failure is printed and the file stays
CleanedUp(p) ==
    IF temp_filepath[p] /\ temp_exists[p] THEN {FALSE, TRUE} ELSE {temp_exists[p]}

\* an exception exc leaves the try block of request p: the with block is left,
\* the except clause picks the status; left tells whether the temp file
\* exists once run_hackrx is left. The subscription goes with the locals
FailWith(p, exc, left) ==
    /\ raised' = [raised EXCEPT ![p] = exc]
    /\ response' = [response EXCEPT ![p] = HandlerStatus(exc)]
    /\ file_lock' = Released(p)
    /\ temp_exists' = [temp_exists EXCEPT ![p] = left]
    /\ metadata' = Left(p)
    /\ expired' = [expired EXCEPT ![p] = FALSE]
    /\ inbox' = [inbox EXCEPT ![p] = <<>>]
    /\ printed' = [printed EXCEPT ![p] = ""]
    /\ pc' = [pc EXCEPT ![p] = "done"]

\* lines 240-251: finally runs cleanup_temp_file
Fail(p, exc) == \E left \in CleanedUp(p) : FailWith(p, exc, left)

\* the digests a download can yield: that of the earlier run's document, one
\* already seen in this run, or a new one; new digests are labelled in the
\* order in which they first appear
Downloadable ==
    {OldHash}
    \cup {h \in Hashes : \A g \in 1..(h - 1) : \E q \in Reqs : file_hash[q] = g}

\* line 188: download_file_to_temp
Download(p) ==
    /\ pc[p] = "start"
    /\ \/ \E h \in Downloadable :
            /\ file_hash' = [file_hash EXCEPT ![p] = h]
            /\ temp_filepath' = [temp_filepath EXCEPT ![p] = TRUE]
            /\ temp_exists' = [temp_exists EXCEPT ![p] = TRUE]
            /\ pc' = [pc EXCEPT ![p] = "acquire"]
            /\ UNCHANGED <<raised, response, file_lock, metadata, expired,
                           inbox, printed>>
       \/ \E exc \in {"RequestException", "OSError"} :
            \* lines 106-109: the temp file (if it was created) is removed
            \* and the exception raised again
            /\ FailWith(p, exc, FALSE)
            /\ UNCHANGED <<file_hash, temp_filepath>>
       \/ \* os.remove of line 108 raises: its OSError leaves the except
          \* block in place of the first exception, the temp file stays and
          \* temp_filepath of run_hackrx is still None
          /\ FailWith(p, "OSError", TRUE)
          /\ UNCHANGED <<file_hash, temp_filepath>>
    /\ UNCHANGED <<extension, final_name, answers, meta, store, sent>>
    /\ UNCHANGED othervars

\* lines 191-219: enter the with block once the lock is free, make sure the
\* downloads directory exists, load the ledger and look the hash up. A
\* duplicate's temp file is cleaned up at once; for a new content
\* determine_file_extension looks at the response and the URL, the file is
\* named after next_id and the temp file is moved there
EnterAndStore(p) ==
    /\ pc[p] = "acquire"
    /\ LockFree
    /\ \/ \* os.makedirs of line 194 raises
          /\ Fail(p, "OSError")
          /\ UNCHANGED <<extension, final_name, store, temp_filepath, meta>>
       \/ LET m == get_or_create_metadata(meta) IN
            IF LoadError(meta) # ""
            THEN \* line 196 raises inside the with block
                 /\ Fail(p, LoadError(meta))
                 /\ UNCHANGED <<extension, final_name, store, temp_filepath, meta>>
            ELSE IF LookupError(m, file_hash[p]) # ""
            THEN \* lines 199-202 raise on the value that was loaded
                 /\ Fail(p, LookupError(m, file_hash[p]))
                 /\ UNCHANGED <<extension, final_name, store, temp_filepath, meta>>
            ELSE IF IsDuplicate(file_hash[p], m)
            THEN /\ file_lock' = p
                 /\ metadata' = [metadata EXCEPT ![p] = m]
                 /\ \E left \in CleanedUp(p) :            \* line 204
                        temp_exists' = [temp_exists EXCEPT ![p] = left]
                 /\ pc' = [pc EXCEPT ![p] = "dup_publish"]
                 /\ UNCHANGED <<extension, final_name, store, temp_filepath,
                                raised, response, expired, inbox, printed, meta>>
            ELSE \E e \in Exts :
                 LET name == NewGenericFilename(IdText(m), e) IN
                    /\ extension' = [extension EXCEPT ![p] = e]
                    /\ final_name' = [final_name EXCEPT ![p] = name]
                    /\ \/ /\ file_lock' = p
                          /\ metadata' = [metadata EXCEPT ![p] = m]
                          /\ store' = Put(store, name, file_hash[p])
                          /\ temp_filepath' = [temp_filepath EXCEPT ![p] = FALSE]
                          /\ temp_exists' = [temp_exists EXCEPT ![p] = FALSE]
                          /\ pc' = [pc EXCEPT ![p] = "save"]
                          /\ UNCHANGED <<raised, response, expired, inbox,
                                         printed, meta>>
                       \/ \* shutil.move raises: nothing was written, or the
                          \* copy to another file system left something behind
                          /\ Fail(p, "OSError")
                          /\ meta' = MetaAfterFailedMove(meta, m, file_hash[p], name)
                          /\ \/ store' = store
                             \/ \E c \in MoveLeavings(file_hash[p]) :
                                    store' = Put(store, name, c)
                          /\ UNCHANGED temp_filepath
    /\ UNCHANGED <<file_hash, answers, sent>>
    /\ UNCHANGED othervars

\* lines 222-227: update the dict, write meta.json, leave the with block
SaveMetadata(p) ==
    /\ pc[p] = "save"
    /\ IF UpdateError(metadata[p]) # ""
       THEN \* line 222 raises: save_metadata is not called
            /\ Fail(p, UpdateError(metadata[p]))
            /\ UNCHANGED meta
       ELSE LET m == UpdateMetadata(metadata[p], file_hash[p], final_name[p]) IN
        \/ /\ metadata' = [metadata EXCEPT ![p] = m]
           /\ meta' = LedgerFile(m)
           /\ file_lock' = Released(p)
           /\ pc' = [pc EXCEPT ![p] = "publish"]
           /\ UNCHANGED <<raised, response, temp_exists, expired, inbox, printed>>
        \/ \* open(meta_path, 'w') raises: the file is as it was;
           \* json.dump raises after open truncated it: invalid JSON is left
           /\ meta' \in {meta, InvalidJson}
           /\ Fail(p, "OSError")
    /\ UNCHANGED <<file_hash, extension, temp_filepath, final_name, answers,
                   store, sent>>
    /\ UNCHANGED othervars

\* publish_file_event (lines 139-149) as called at line 205 or 231: the
\* payload reaches the open subscriptions, whatever they hold unread; a
\* failure of r.publish is printed and swallowed
PublishAt(p, from, to, path) ==
    /\ pc[p] = from
    /\ \/ LET data == WorkEvent(file_hash[p], path) IN
            /\ sent' = sent (+) SetToBag({data})
            /\ inbox' = Delivered(data)
            /\ pc' = [pc EXCEPT ![p] = to]
            /\ printed' = [printed EXCEPT ![p] = PublishedLine]
            /\ UNCHANGED <<raised, response, file_lock, temp_exists, metadata,
                           expired>>
       \/ \* r.publish raises
          IF PublishCatches
          THEN /\ pc' = [pc EXCEPT ![p] = to]
               /\ printed' = [printed EXCEPT ![p] = PublishFailedLine]
               /\ UNCHANGED <<sent, raised, response, file_lock, temp_exists,
                              metadata, expired, inbox>>
          ELSE /\ Fail(p, "ConnectionError")
               /\ UNCHANGED sent
    /\ UNCHANGED <<file_hash, extension, temp_filepath, final_name, answers,
                   meta, store>>
    /\ UNCHANGED othervars

\* line 231
PublishNew(p) == PublishAt(p, "publish", "subscribe", JoinPath(final_name[p]))

\* lines 201-205, still inside the with block
PublishDuplicate(p) ==
    PublishAt(p, "dup_publish", "subscribe",
              JoinPath(metadata[p].files_by_hash[file_hash[p]].generic_filename))

\* lines 157-162: open the subscription, take start_time; listen() yields the
\* subscribe confirmation, which is skipped (type is not "message")
Subscribe(p) ==
    /\ pc[p] = "subscribe"
    /\ \/ /\ expired' = [expired EXCEPT ![p] = FALSE]
          /\ pc' = [pc EXCEPT ![p] = "wait"]
          /\ printed' = [printed EXCEPT ![p] = WaitingLine]
          /\ UNCHANGED <<raised, response, file_lock, temp_exists, metadata,
                         inbox>>
       \/ \* redis.ConnectionError
          /\ Fail(p, "ConnectionError")
    /\ UNCHANGED <<file_hash, extension, temp_filepath, final_name, answers,
                   meta, store, sent>>
    /\ UNCHANGED othervars

\* lines 162-177: listen() yields the oldest message the subscription holds
\* and the loop body runs for it. A match is returned to run_hackrx, which
\* returns the answers (lines 209-211, 235-238) through the finally clause;
\* on the new-file path it prints len(answers) first (line 237), which
\* raises TypeError for answers that have no length
HandleMessage(p) ==
    /\ pc[p] = "wait"
    /\ inbox[p] # <<>>
    /\ LET data == Head(inbox[p])
           outcome == LoopOutcome(p, data) IN
        IF outcome = "return" /\ final_name[p] # "" /\ ~HasLen(data.answers)
        THEN /\ Fail(p, "TypeError")
             /\ UNCHANGED answers
        ELSE IF outcome = "return"
        THEN /\ answers' = [answers EXCEPT ![p] = data.answers]
             /\ response' = [response EXCEPT ![p] = 200]
             /\ file_lock' = Released(p)
             /\ \E left \in CleanedUp(p) :
                    temp_exists' = [temp_exists EXCEPT ![p] = left]
             /\ metadata' = Left(p)
             /\ expired' = [expired EXCEPT ![p] = FALSE]
             /\ inbox' = [inbox EXCEPT ![p] = <<>>]
             /\ printed' = [printed EXCEPT ![p] = ""]
             /\ pc' = [pc EXCEPT ![p] = "done"]
             /\ UNCHANGED raised
        ELSE IF outcome = "timeout"
        THEN \* lines 174-177 raise inside the try block of run_hackrx
             /\ Fail(p, "HTTPException504")
             /\ UNCHANGED answers
        ELSE /\ inbox' = [inbox EXCEPT ![p] = Tail(inbox[p])]
             /\ UNCHANGED <<pc, raised, response, answers, file_lock,
                            temp_exists, metadata, expired, printed>>
    /\ UNCHANGED <<file_hash, extension, temp_filepath, final_name, meta, store,
                   sent>>
    /\ UNCHANGED othervars

\* listen() raises: the connection to Redis is lost while waiting
ListenFails(p) ==
    /\ pc[p] = "wait"
    /\ Fail(p, "ConnectionError")
    /\ UNCHANGED <<file_hash, extension, temp_filepath, final_name, answers,
                   meta, store, sent>>
    /\ UNCHANGED othervars

\* the wall clock passes start_time + timeout (line 172 becomes true)
DeadlinePasses(p) ==
    /\ pc[p] = "wait"
    /\ ~expired[p]
    /\ expired' = [expired EXCEPT ![p] = TRUE]
    /\ UNCHANGED <<pc, file_hash, extension, temp_filepath, temp_exists, metadata,
                   final_name, raised, response, answers, file_lock, meta, store,
                   sent, inbox, printed>>
    /\ UNCHANGED othervars

\* a message some other client of the channel publishes reaches the open
\* subscriptions; the clients stop publishing while a subscription holds
\* MaxInbox unread messages
Arrives(data) ==
    /\ Room
    /\ inbox' = Delivered(data)
    /\ UNCHANGED <<pc, file_hash, extension, temp_filepath, temp_exists, metadata,
                   final_name, raised, response, answers, file_lock, meta, store,
                   expired, sent, printed>>
    /\ UNCHANGED othervars

\* a result event is published on the channel. No code of src/ publishes
\* one (the worker side is a separate program), so the waiters are given
\* results for any hash, with any answers, at any moment
ResultPublish == \E h \in AllHashes, a \in AnswerValues : Arrives(ResultEvent(h, a))

\* some other publisher puts a payload on the channel that is not the JSON
\* of an event
NoisePublish == Arrives(Unparseable)

RequestStep(p) ==
    \/ Download(p)
    \/ EnterAndStore(p)
    \/ SaveMetadata(p)
    \/ PublishNew(p)
    \/ PublishDuplicate(p)
    \/ Subscribe(p)
    \/ HandleMessage(p)
    \/ ListenFails(p)

Next ==
    \/ \E p \in Reqs : RequestStep(p)
    \/ \E p \in Reqs : DeadlinePasses(p)
    \/ ResultPublish
    \/ NoisePublish

Spec == Init /\ [][Next]_vars

\* every request thread keeps running its local steps (lock, files, the
\* body of the loop for a message that was received) and the clock keeps
\* advancing. Nothing obliges anyone to publish a result, and the calls over
\* the network (requests.get, r.publish, pubsub.subscribe) have no timeout
\* and may never return
FairSpec ==
    /\ Spec
    /\ \A p \in Reqs :
        /\ WF_vars(EnterAndStore(p) \/ SaveMetadata(p) \/ HandleMessage(p))
        /\ WF_vars(DeadlinePasses(p))

TypeOK ==
    /\ pc \in [Reqs -> {"start", "acquire", "save", "publish",
                        "dup_publish", "subscribe", "wait", "done"}]
    /\ file_lock \in Reqs \cup {NoOwner}
    /\ response \in [Reqs -> {0, 200, 400, 500, 504}]
    /\ file_hash \in [Reqs -> AllHashes \cup {0}]
    /\ expired \in [Reqs -> BOOLEAN]
    /\ answers \in [Reqs -> AnswerValues \cup {NoAnswers}]
    /\ \A p \in Reqs : Len(inbox[p]) <= MaxInbox + NumReq - 1
    /\ printed \in [Reqs -> {"", PublishedLine, PublishFailedLine, WaitingLine}]

(***************************************************************************)
(* save_metadata and get_or_create_metadata as a pair: what json.dump      *)
(* writes and what json.load reads back                                    *)
(***************************************************************************)
(* ---- bounds ---- *)
MaxNextId == 4       \* largest next_id of a ledger handed to save_metadata

\* a Python dict key: its type and its text (repr for an int)
PyStr(s) == [t |-> "str", s |-> s]
PyInt(s) == [t |-> "int", s |-> s]

\* sha256 hex digests, the keys run_hackrx puts into files_by_hash (line 222)
HashTexts == {"ab12", "cd34"}
FileNames == {"document1.pdf", "document2.txt"}

\* variant: keys that are not all strings
AnyKeys == {PyStr(h) : h \in HashTexts} \cup {PyInt("7")}

\* the keys of files_by_hash in a well-formed ledger: strings
LedgerKeys == {PyStr(h) : h \in HashTexts}

\* the dicts save_metadata is given
Ledgers ==
    UNION {[files_by_hash : [K -> [generic_filename : FileNames]],
            next_id : 1..MaxNextId] : K \in SUBSET LedgerKeys}

\* json.dump writes every dict key as a JSON string: str keys as they are,
\* int keys as their decimal text
KeyText(k) == k.s

\* json.dump(metadata, f, indent=4), line 126
json_dump(m) ==
    JObject(
        ("files_by_hash" :>
            JObject([t \in {KeyText(k) : k \in DOMAIN m.files_by_hash} |->
                LET k == CHOOSE x \in DOMAIN m.files_by_hash : KeyText(x) = t IN
                    JObject("generic_filename" :>
                                JString(m.files_by_hash[k].generic_filename))]))
        @@ ("next_id" :> JNumber(m.next_id)))

\* json.load(f), line 115: object members come back under str keys
json_load(doc) ==
    LET files == doc.members["files_by_hash"].members IN
        [files_by_hash |->
            [k \in {PyStr(t) : t \in DOMAIN files} |->
                [generic_filename |-> files[k.s].members["generic_filename"].s]],
         next_id |-> doc.members["next_id"].n]

JsonFile(doc) == [kind |-> "json", doc |-> doc]

\* get_or_create_metadata (lines 113-121): a file holding the JSON object
\* doc is parsed; on any other file the call raises what LoadError names,
\* or returns what get_or_create_metadata returns for it
LoadJsonFile(f) ==
    IF f.kind # "json" /\ LoadError(f) # "" THEN [raised |-> LoadError(f)]
    ELSE IF f.kind # "json" THEN get_or_create_metadata(f)
    ELSE IF "files_by_hash" \notin DOMAIN f.doc.members THEN FreshMetadata
    ELSE json_load(f.doc)

RoundTripStart ==
    /\ rt_pc = "save"
    /\ rt_ledger \in Ledgers
    /\ rt_file \in {AbsentFile, InvalidJson}
    /\ rt_loaded = FreshMetadata

\* save_metadata, lines 123-126
RoundTripSave ==
    /\ rt_pc = "save"
    /\ \/ /\ rt_file' = JsonFile(json_dump(rt_ledger))
          /\ rt_pc' = "load"
       \/ \* open(meta_path, 'w') or the write raises
          /\ rt_file' \in {rt_file, InvalidJson}
          /\ rt_pc' = "failed"
    /\ UNCHANGED <<rt_ledger, rt_loaded>>
    /\ UNCHANGED <<vars, nhvars>>

\* get_or_create_metadata, lines 111-121
RoundTripLoad ==
    /\ rt_pc = "load"
    /\ IF "raised" \in DOMAIN LoadJsonFile(rt_file)
       THEN rt_pc' = "failed" /\ UNCHANGED rt_loaded
       ELSE rt_loaded' = LoadJsonFile(rt_file) /\ rt_pc' = "loaded"
    /\ UNCHANGED <<rt_ledger, rt_file>>
    /\ UNCHANGED <<vars, nhvars>>

RoundTripNext == RoundTripSave \/ RoundTripLoad

RoundTripInit == HandlerIdle /\ RoundTripStart /\ NotifyingIdle

RoundTripSpec == RoundTripInit /\ [][RoundTripNext]_<<vars, rtvars>>

(***************************************************************************)
(* src/handler/hackrx.py: run_hackrx downloads the document, has           *)
(* process_questions_parallel answer the questions on a thread pool,       *)
(* notifies Discord and responds                                           *)
(***************************************************************************)
(* ---- bounds ---- *)
MaxQuestions == 3    \* longest req.questions

QuestionTexts == {"A", "B"}

QuestionLists == UNION {[1..n -> QuestionTexts] : n \in 0..MaxQuestions}

\* line 88 of src/ml_model/run.py: {q: i for i, q in enumerate(questions)},
\* a later occurrence of a question replaces the index of an earlier one
question_to_index(qs, q) ==
    LET at == {i \in 1..Len(qs) : qs[i] = q} IN
        IF at = {} THEN Len(qs) + 1
        ELSE CHOOSE i \in at : \A j \in at : j <= i

\* line 89: results.sort(key=...), a stable sort: the results of key k, in
\* the order they have in rs, followed by those of the larger keys
RECURSIVE SortedFrom(_, _, _)
SortedFrom(rs, qs, k) ==
    IF k > Len(qs) + 1 THEN <<>>
    ELSE SelectSeq(rs, LAMBDA x : question_to_index(qs, x.question) = k)
         \o SortedFrom(rs, qs, k + 1)

SortResults(rs, qs) == SortedFrom(rs, qs, 1)

\* str(e) of the exception a pipeline stage or an agent constructor raises
PipelineMessage == "pipeline failed"

\* process_single_question, lines 36-55: "question" is the question it was
\* given; the pipeline either succeeds or the exception raised inside the
\* try is turned into an error result that carries str(e)
Result(q, st) ==
    IF st = "success" THEN [question |-> q, status |-> st]
    ELSE [error |-> PipelineMessage, question |-> q, status |-> st]

\* lines 78-85 of process_questions_parallel: future.result raised (the
\* agents are constructed at lines 32-34, outside the try), the error
\* result is built there with "Processing failed: " before the message
FailedFuture(q) ==
    [error |-> "Processing failed: " \o PipelineMessage, question |-> q,
     status |-> "error"]

GeneratedAnswer(q) == "answer to " \o q

\* get_answers_from_file, lines 153-159
AnswerOf(r) ==
    IF r.status = "success" THEN GeneratedAnswer(r.question)
    ELSE "Error: " \o r.error

AnswersOf(rs) == [i \in 1..Len(rs) |-> AnswerOf(rs[i])]

\* send_to_discord, lines 39-58: the outcomes of the post; a failure (of the
\* connection, or raise_for_status) is printed by except Exception
PostOutcomes == {"sent", "failed"}

\* lines 173-177 and 179-183
NotifyingStatus(exc) == IF exc = "RequestException" THEN 400 ELSE 500

\* finally, lines 186-192: what is left of the temp file; a failure of
\* os.remove is printed and the file stays
NotifyingCleanedUp ==
    IF nh_temp_file /\ nh_temp_exists THEN {FALSE, TRUE} ELSE {nh_temp_exists}

NotifyingStart ==
    /\ nh_pc = "start"
    /\ nh_questions \in QuestionLists
    /\ nh_futures = {}
    /\ nh_results = <<>>
    /\ nh_answers = <<>>
    /\ nh_raised = ""
    /\ nh_response = 0
    /\ nh_webhook \in BOOLEAN
    /\ nh_discord = "none"
    /\ nh_temp_file = FALSE
    /\ nh_temp_exists = FALSE

\* line 167: temp_file = download_file(req.documents)
NotifyingDownload ==
    /\ nh_pc = "start"
    /\ \/ /\ nh_temp_file' = TRUE
          /\ nh_temp_exists' = TRUE
          /\ nh_pc' = "submit"
          /\ UNCHANGED nh_raised
       \/ \* download_file raises, before or after the temp file was created;
          \* temp_file of run_hackrx stays None
          \E exc \in {"RequestException", "OSError"}, created \in BOOLEAN :
            /\ nh_raised' = exc
            /\ nh_temp_exists' = created
            /\ nh_pc' = "notify_error"
            /\ UNCHANGED nh_temp_file
    /\ UNCHANGED <<nh_questions, nh_futures, nh_results, nh_answers, nh_response,
                   nh_webhook, nh_discord>>
    /\ UNCHANGED <<vars, rtvars>>

\* lines 59-70 of src/ml_model/run.py: without questions the function
\* returns [] at once; otherwise every question is submitted to the pool,
\* and executor.submit raises RuntimeError when no thread can be started,
\* which leaves get_answers_from_file and reaches except Exception of
\* run_hackrx with temp_file set
Submit ==
    /\ nh_pc = "submit"
    /\ \/ /\ nh_futures' = 1..Len(nh_questions)
          /\ nh_pc' = "process"
          /\ UNCHANGED nh_raised
       \/ /\ nh_questions # <<>>
          /\ nh_raised' = "RuntimeError"
          /\ nh_pc' = "notify_error"
          /\ UNCHANGED nh_futures
    /\ UNCHANGED <<nh_questions, nh_results, nh_answers, nh_response,
                   nh_webhook, nh_discord, nh_temp_file, nh_temp_exists>>
    /\ UNCHANGED <<vars, rtvars>>

\* lines 73-85: as_completed yields future i; its result, or the error
\* result built for its exception, is appended
Complete(i) ==
    /\ nh_pc = "process"
    /\ i \in nh_futures
    /\ \E r \in {Result(nh_questions[i], "success"),
                  Result(nh_questions[i], "error"),
                  FailedFuture(nh_questions[i])} :
        nh_results' = Append(nh_results, r)
    /\ nh_futures' = nh_futures \ {i}
    /\ UNCHANGED <<nh_pc, nh_questions, nh_answers, nh_raised, nh_response,
                   nh_webhook, nh_discord, nh_temp_file, nh_temp_exists>>
    /\ UNCHANGED <<vars, rtvars>>

\* lines 87-91, then get_answers_from_file builds the answers
SortAndAnswer ==
    /\ nh_pc = "process"
    /\ nh_futures = {}
    /\ LET sorted == SortResults(nh_results, nh_questions) IN
        /\ nh_results' = sorted
        /\ nh_answers' = AnswersOf(sorted)
    /\ nh_pc' = "notify_result"
    /\ UNCHANGED <<nh_questions, nh_futures, nh_raised, nh_response, nh_webhook,
                   nh_discord, nh_temp_file, nh_temp_exists>>
    /\ UNCHANGED <<vars, rtvars>>

\* run_hackrx is left with status st and the answers as: the finally clause
\* (lines 186-192) runs
Respond(st, as) ==
    /\ nh_response' = st
    /\ nh_answers' = as
    /\ nh_temp_exists' \in NotifyingCleanedUp
    /\ nh_pc' = "done"

\* line 172: await send_hackrx_result_to_discord. Without a webhook URL
\* send_to_discord returns at line 41 and the coroutine is never suspended:
\* return {"answers": answers} follows at once. With a webhook the coroutine
\* is suspended in client.post (line 50)
NotifyResult ==
    /\ nh_pc = "notify_result"
    /\ IF nh_webhook
       THEN /\ nh_pc' = "await_result"
            /\ UNCHANGED <<nh_response, nh_answers, nh_temp_exists, nh_discord>>
       ELSE /\ nh_discord' = "skipped"
            /\ Respond(200, nh_answers)
    /\ UNCHANGED <<nh_questions, nh_futures, nh_results, nh_raised, nh_webhook,
                   nh_temp_file>>
    /\ UNCHANGED <<vars, rtvars>>

\* the post of line 50 returns or fails (lines 55-58), then line 174
ResultPosted ==
    /\ nh_pc = "await_result"
    /\ nh_discord' \in PostOutcomes
    /\ Respond(200, nh_answers)
    /\ UNCHANGED <<nh_questions, nh_futures, nh_results, nh_raised, nh_webhook,
                   nh_temp_file>>
    /\ UNCHANGED <<vars, rtvars>>

\* lines 175-183: the except clause awaits send_to_discord before it raises
\* the HTTPException
NotifyError ==
    /\ nh_pc = "notify_error"
    /\ IF nh_webhook
       THEN /\ nh_pc' = "await_error"
            /\ UNCHANGED <<nh_response, nh_answers, nh_temp_exists, nh_discord>>
       ELSE /\ nh_discord' = "skipped"
            /\ Respond(NotifyingStatus(nh_raised), <<>>)
    /\ UNCHANGED <<nh_questions, nh_futures, nh_results, nh_raised, nh_webhook,
                   nh_temp_file>>
    /\ UNCHANGED <<vars, rtvars>>

\* the post returns or fails, then the HTTPException of line 178 or 183
ErrorPosted ==
    /\ nh_pc = "await_error"
    /\ nh_discord' \in PostOutcomes
    /\ Respond(NotifyingStatus(nh_raised), <<>>)
    /\ UNCHANGED <<nh_questions, nh_futures, nh_results, nh_raised, nh_webhook,
                   nh_temp_file>>
    /\ UNCHANGED <<vars, rtvars>>

\* the request's task is cancelled while it is suspended in client.post:
\* CancelledError is no Exception, so it passes the except clauses of lines
\* 57, 117, 175 and 179; the finally clause runs and run_hackrx is left
\* without a response
Cancelled ==
    /\ nh_pc \in {"await_result", "await_error"}
    /\ nh_raised' = "CancelledError"
    /\ Respond(0, <<>>)
    /\ UNCHANGED <<nh_questions, nh_futures, nh_results, nh_webhook, nh_discord,
                   nh_temp_file>>
    /\ UNCHANGED <<vars, rtvars>>

NotifyingNext ==
    \/ NotifyingDownload
    \/ Submit
    \/ \E i \in 1..MaxQuestions : Complete(i)
    \/ SortAndAnswer
    \/ NotifyResult
    \/ ResultPosted
    \/ NotifyError
    \/ ErrorPosted
    \/ Cancelled

NotifyingInit == HandlerIdle /\ RoundTripIdle /\ NotifyingStart

NotifyingSpec == NotifyingInit /\ [][NotifyingNext]_<<vars, rtvars, nhvars>>

(***************************************************************************)
(* What a state tells about the course of a request                        *)
(***************************************************************************)
\* what download_file_to_temp (requests failure, temp file I/O), shutil.move
\* and save_metadata raise
AbortErrors == {"RequestException", "OSError"}

\* positions of run_hackrx before publish_file_event and wait_for_result
BeforeBus == {"start", "acquire", "save"}

\* the step publishes request p's work event
PublishesWork(p) ==
    /\ pc[p] \in {"publish", "dup_publish"}
    /\ pc'[p] # pc[p]
    /\ BagCardinality(sent') > BagCardinality(sent)

\* line 166 for request p: the message is the result of p's hash
IsResultFor(p, data) ==
    data.event_type = "result" /\ data.filehash = file_hash[p]

\* the step hands a message to the subscription of request p
Receives(p) == Len(inbox'[p]) > Len(inbox[p])

\* the step is one pass of request p's loop body (lines 162-177) for the
\* oldest message its subscription holds
Handles(p) ==
    /\ pc[p] = "wait"
    /\ inbox[p] # <<>>
    /\ \/ pc'[p] = "wait" /\ inbox'[p] = Tail(inbox[p])
       \/ pc'[p] = "done" /\ raised'[p] # "ConnectionError"

\* the step makes request p return the answers to its caller
GetsAnswers(p) == response[p] # 200 /\ response'[p] = 200

\* shutil.move raised for request p: a name was chosen, the local
\* temp_filepath still names the temp file
MoveFailed(p) ==
    /\ pc[p] = "done"
    /\ raised[p] = "OSError"
    /\ final_name[p] # ""
    /\ temp_filepath[p]

\* the request moved its temp file into the downloads directory
CreatedFile(p) == final_name[p] # "" /\ ~temp_filepath[p]

\* save_metadata raised after the request's file was moved
SaveFailed(p) == CreatedFile(p) /\ pc[p] = "done" /\ raised[p] = "OSError"

\* lines 222-225 raised after the request's file was moved: the ledger it
\* loaded is one that takes no update (no request ever replaces it)
UpdateFailed(p) ==
    /\ CreatedFile(p)
    /\ pc[p] = "done"
    /\ raised[p] = "TypeError"
    /\ meta.kind = "ledger"
    /\ UpdateError(meta.content) # ""

\* the request moved its file and saved the ledger: it left the with block
\* of the new-file path normally
Stored(p) ==
    CreatedFile(p) /\ pc[p] # "save" /\ ~SaveFailed(p) /\ ~UpdateFailed(p)

\* the request took the duplicate path (it waits inside the with block)
OnDuplicatePath(p) ==
    pc[p] \in {"dup_publish", "subscribe", "wait"} /\ final_name[p] = ""

OnDisk(h) == meta.kind = "ledger" /\ h \in DOMAIN meta.content.files_by_hash

FilesOf(h) == {n \in DOMAIN store : store[n] = h}

(***************************************************************************)
(* C1: requests that present pairwise distinct contents, none of them in   *)
(* the ledger, are given pairwise distinct canonical filenames under every *)
(* interleaving, and next_id advances by one for each of them: a request   *)
(* that leaves the critical section of the new-file path leaves a ledger   *)
(* that holds its hash and a next_id one above the one it loaded, and no   *)
(* other step changes the ledger.                                          *)
(***************************************************************************)
C1_DistinctFilenames ==
    [][/\ \A p, q \in Reqs :
            ( /\ p # q
              /\ CreatedFile(p)' /\ CreatedFile(q)'
              /\ file_hash'[p] # file_hash'[q] )
            => final_name'[p] # final_name'[q]
       /\ \A p \in Reqs :
            (pc[p] = "save" /\ pc'[p] # "save")
            => /\ OnDisk(file_hash[p])'
               /\ NextId(meta'.content) = NextId(metadata[p]) + 1
       /\ (\A p \in Reqs : pc[p] = "save" => pc'[p] = "save")
            => meta' = meta]_vars

(***************************************************************************)
(* C2: a request whose wait_for_result raised the 504 timeout answers its  *)
(* caller with status 504, never with 500.                                 *)
(***************************************************************************)
C2_TimeoutIs504 ==
    \A p \in Reqs : raised[p] = "HTTPException504" => response[p] = 504

(***************************************************************************)
(* C3: a request that waits in wait_for_result eventually leaves it, also  *)
(* when the channel delivers no further message (silent bus).              *)
(***************************************************************************)
C3_WaitTerminates ==
    \A p \in Reqs : (pc[p] = "wait") ~> (pc[p] = "done")

(***************************************************************************)
(* C4: once the deadline of a waiter has passed, wait_for_result has       *)
(* failed: no matching result event is delivered to a request that is      *)
(* still waiting after its deadline, and no request ends with the answers  *)
(* after its deadline.                                                     *)
(***************************************************************************)
C4_NoLateResult ==
    [][\A p \in Reqs :
        (pc[p] = "wait" /\ expired[p])
        => /\ ~(Receives(p) /\ IsResultFor(p, inbox'[p][Len(inbox'[p])]))
           /\ ~(pc'[p] = "done" /\ response'[p] = 200)]_vars

(***************************************************************************)
(* C5: no request is in the Waiting state (subscribed, inside              *)
(* wait_for_result) while it holds file_lock.                              *)
(***************************************************************************)
C5_NoWaitUnderLock ==
    \A p \in Reqs : pc[p] = "wait" => file_lock # p

(***************************************************************************)
(* C6: a canonical filename once given to one content is never given to a  *)
(* different content: no file of the downloads directory is overwritten    *)
(* by different content, save_metadata failures included.                  *)
(***************************************************************************)
C6_NoFilenameReuse ==
    [][\A n \in DOMAIN store : n \in DOMAIN store' /\ store'[n] = store[n]]_vars

(***************************************************************************)
(* C7: in every interleaving of requests at most one request per content   *)
(* hash creates a canonical file and the downloads directory holds at most *)
(* one file per hash; a request is on the new-file path only while the     *)
(* ledger has no entry for its hash, and a request on the duplicate path   *)
(* found its hash in the ledger.                                           *)
(***************************************************************************)
C7_OneFilePerHash ==
    /\ \A h \in AllHashes :
        /\ Cardinality({p \in Reqs : file_hash[p] = h /\ CreatedFile(p)}) <= 1
        /\ Cardinality(FilesOf(h)) <= 1
    /\ \A p \in Reqs : pc[p] = "save" => ~OnDisk(file_hash[p])
    /\ \A p \in Reqs : OnDuplicatePath(p) => OnDisk(file_hash[p])

(***************************************************************************)
(* C8: from an empty store, a request without extension hint stores its    *)
(* content h as document1.pdf, leaves the ledger as                        *)
(* {h: {generic_filename: "document1.pdf"}} with next_id = 2, and the work *)
(* event it publishes carries h and the path of that file.                 *)
(***************************************************************************)
C8_FirstFile ==
    [][\A p \in Reqs :
        /\ ( /\ pc[p] = "save" /\ pc'[p] = "publish"
             /\ extension[p] = ""
             /\ DOMAIN store = {final_name[p]} )
           => /\ final_name[p] = "document1.pdf"
              /\ store[final_name[p]] = file_hash[p]
              /\ meta' = LedgerFile(
                    [files_by_hash |->
                        [h \in {file_hash[p]} |-> [generic_filename |-> "document1.pdf"]],
                     next_id |-> 2])
        /\ ( /\ pc[p] = "publish" /\ pc'[p] = "subscribe"
             /\ extension[p] = ""
             /\ DOMAIN store = {final_name[p]}
             /\ sent' # sent )
           => sent' = sent (+)
                SetToBag({WorkEvent(file_hash[p], "downloads/document1.pdf")})]_vars

C8_Witness ==
    \E p \in Reqs :
        /\ pc[p] = "subscribe"
        /\ extension[p] = ""
        /\ final_name[p] = "document1.pdf"
        /\ DOMAIN store = {"document1.pdf"}
        /\ meta.kind = "ledger"
        /\ meta.content.next_id = 2
        /\ BagIn(WorkEvent(file_hash[p], "downloads/document1.pdf"), sent)

(***************************************************************************)
(* C9: no step of a request whose hash is in the ledger changes the ledger *)
(* (entries, next_id) or the stored files, whatever the outcome of its     *)
(* wait, and the work event a duplicate publishes carries the existing     *)
(* canonical path of its hash.                                             *)
(***************************************************************************)
C9_DuplicateFrame ==
    [][\A p \in Reqs :
        /\ (pc'[p] # pc[p] /\ OnDisk(file_hash[p]))
           => (meta' = meta /\ store' = store)
        /\ (pc[p] = "dup_publish" /\ pc'[p] = "subscribe" /\ sent' # sent)
           => /\ OnDisk(file_hash[p])
              /\ sent' = sent (+) SetToBag({
                    WorkEvent(file_hash[p],
                        JoinPath(meta.content.files_by_hash[file_hash[p]].generic_filename))})]_vars

C9_Witness ==
    \E p \in Reqs :
        /\ pc[p] = "done"
        /\ final_name[p] = ""
        /\ temp_filepath[p]
        /\ response[p] = 500
        /\ raised[p] = "HTTPException504"
        /\ OnDisk(file_hash[p])
        /\ \E e \in BagToSet(sent) : e.filehash = file_hash[p]

(***************************************************************************)
(* C10: when meta.json is absent, holds invalid JSON or is an object       *)
(* without files_by_hash, the request that loads it gets the fresh ledger  *)
(* {files_by_hash: {}, next_id: 1} without failing in the load, and its    *)
(* new content is given id 1; when its save succeeds the ledger on disk    *)
(* has exactly that entry and next_id = 2.                                 *)
(***************************************************************************)
C10_Reinitialised ==
    [][\A p \in Reqs :
        /\ ( /\ pc[p] = "acquire" /\ pc'[p] # "acquire"
             /\ meta \in {AbsentFile, InvalidJson, LegacyObject} )
           => /\ final_name'[p] \in {"", "document1.pdf", "document1.txt"}
              /\ pc'[p] = "save" \/ (pc'[p] = "done" /\ raised'[p] = "OSError")
              /\ pc'[p] = "save" =>
                    /\ final_name'[p] # ""
                    /\ metadata'[p] = [files_by_hash |-> EmptyMap, next_id |-> 1]
                    /\ store'[final_name'[p]] = file_hash[p]
        /\ (pc[p] = "save" /\ pc'[p] = "publish" /\ meta.kind # "ledger")
           => /\ meta'.kind = "ledger"
              /\ meta'.content.next_id = 2
              /\ DOMAIN meta'.content.files_by_hash = {file_hash[p]}
              /\ meta'.content.files_by_hash[file_hash[p]].generic_filename
                    = final_name[p]]_vars

C10_Witness ==
    \E p \in Reqs :
        /\ pc[p] = "save"
        /\ meta = InvalidJson
        /\ metadata[p] = [files_by_hash |-> EmptyMap, next_id |-> 1]
        /\ final_name[p] = "document1.pdf"
        /\ \E q \in Reqs : SaveFailed(q)

(***************************************************************************)
(* C11: get_or_create_metadata never raises: no request ends with an       *)
(* exception of the load, whatever meta.json holds (unreadable file, JSON  *)
(* value that is not an object included).                                  *)
(***************************************************************************)
C11_LoadNeverFails ==
    \A p \in Reqs : raised[p] = "" \/ raised[p] # LoadError(meta)

(***************************************************************************)
(* C12: for every well-formed ledger L (files_by_hash keyed by digest      *)
(* strings, an integer next_id), save_metadata(dir, L) followed by         *)
(* get_or_create_metadata(dir) returns a ledger equal to L.                *)
(***************************************************************************)
C12_RoundTrip ==
    rt_pc = "loaded" => rt_loaded = rt_ledger

C12_Witness ==
    /\ rt_pc = "loaded"
    /\ rt_file.kind = "json"
    /\ Cardinality(DOMAIN rt_ledger.files_by_hash) = 2
    /\ rt_ledger.next_id = 3
    /\ rt_loaded = rt_ledger

(***************************************************************************)
(* C13: when publishing the work event fails, the failure is absorbed: the *)
(* request goes on to wait_for_result, nothing is raised and no response   *)
(* is produced by that step, and the ledger and the stored files stay as   *)
(* they were saved.                                                        *)
(***************************************************************************)
C13_PublishFailureAbsorbed ==
    [][\A p \in Reqs :
        ( /\ pc[p] \in {"publish", "dup_publish"}
          /\ pc'[p] # pc[p]
          /\ sent' = sent )
        => /\ pc'[p] = "subscribe"
           /\ printed'[p] = PublishFailedLine
           /\ raised'[p] = ""
           /\ response'[p] = 0
           /\ meta' = meta
           /\ store' = store
           /\ file_lock' = file_lock]_vars

C13_Witness ==
    \E p \in Reqs :
        /\ pc[p] = "subscribe"
        /\ printed[p] = PublishFailedLine
        /\ Stored(p)
        /\ OnDisk(file_hash[p])
        /\ raised[p] = ""
        /\ response[p] = 0

(***************************************************************************)
(* C14: a failure of the download or hashing, of the file move or of the   *)
(* ledger save ends the request before any bus interaction: the request    *)
(* was at a position before publish_file_event and wait_for_result (and    *)
(* positions never go back there), it has printed nothing about the        *)
(* channel, the failing step publishes nothing, only requests at a publish *)
(* position add work events, and the caller gets 400 for a failed download *)
(* request and 500 for a storage failure.                                  *)
(***************************************************************************)
C14_AbortBeforeBus ==
    [][/\ \A p \in Reqs :
            /\ (raised[p] = "" /\ raised'[p] \in AbortErrors)
               => /\ pc[p] \in BeforeBus
                  /\ printed[p] = ""
                  /\ pc'[p] = "done"
                  /\ sent' = sent
                  /\ response'[p] = (IF raised'[p] = "RequestException"
                                     THEN 400 ELSE 500)
            /\ pc'[p] \in BeforeBus => pc[p] \in BeforeBus /\ printed'[p] = ""
       /\ BagCardinality(sent') > BagCardinality(sent)
            => \E q \in Reqs : /\ pc[q] \in {"publish", "dup_publish"}
                               /\ pc'[q] = "subscribe"]_vars

C14_Witness ==
    \E p, q \in Reqs :
        /\ raised[p] = "RequestException"
        /\ response[p] = 400
        /\ SaveFailed(q)
        /\ response[q] = 500
        /\ sent = EmptyBag

(***************************************************************************)
(* C15: process_questions_parallel returns, for every list of questions    *)
(* (repeated questions allowed) and every completion order, exactly one    *)
(* result per question, the i-th result being that of the i-th question.   *)
(***************************************************************************)
C15_ResultsInQuestionOrder ==
    nh_pc \in {"notify_result", "done"} /\ nh_raised = ""
    => /\ Len(nh_results) = Len(nh_questions)
       /\ \A i \in 1..Len(nh_questions) : nh_results[i].question = nh_questions[i]

C17_SubscribedBeforePublish ==
    [][\A p \in Reqs : PublishesWork(p) => (Subscribed(p) \/ Subscribed(p)')]_vars

(***************************************************************************)
(* C18: a result event published while the request is not yet subscribed   *)
(* (in particular between its publish and its subscribe) is not returned   *)
(* by its waiter, neither then nor later: nothing published while a        *)
(* request is not subscribed is kept for it, and a request gets answers    *)
(* only from a matching result its subscription received.                  *)
(***************************************************************************)
C18_EarlyResultLost ==
    [][\A p \in Reqs :
        /\ pc[p] # "wait"
           => /\ inbox'[p] = <<>>
              /\ answers'[p] = answers[p]
              /\ response'[p] # 200 \/ response[p] = 200
        /\ (GetsAnswers(p) \/ answers'[p] # answers[p])
           => /\ pc[p] = "wait"
              /\ inbox[p] # <<>>
              /\ Head(inbox[p]) \in {ResultEvent(file_hash[p], a) : a \in AnswerValues}]_vars

C18_Witness ==
    \E p, q \in Reqs :
        /\ p # q
        /\ file_hash[p] = file_hash[q]
        /\ Stored(p)
        /\ pc[p] = "wait"
        /\ inbox[p] = <<>>
        /\ answers[p] = NoAnswers
        /\ response[q] = 200
        /\ answers[q] = JArray(<<"answer 1">>)

(***************************************************************************)
(* C19: wait_for_result(h) returns only for an event of type "result"      *)
(* whose filehash is h, and does so for the first such event its           *)
(* subscription yields; the answers given to the caller are those of that  *)
(* event (on the new-file path an event whose answers are no list, which   *)
(* is no result event of the data model, ends the request with 500 and no  *)
(* answers). Any other message (work event, result for another hash,       *)
(* unparseable payload) is skipped: before the deadline the wait goes on,  *)
(* and the wait ends otherwise only by the timeout or a lost connection.   *)
(***************************************************************************)
C19_OnlyMatchingResult ==
    [][\A p \in Reqs :
        /\ GetsAnswers(p)
           => /\ Handles(p)
              /\ Head(inbox[p]).event_type = "result"
              /\ Head(inbox[p]).filehash = file_hash[p]
              /\ answers'[p] = Head(inbox[p]).answers
        /\ (Handles(p) /\ IsResultFor(p, Head(inbox[p])))
           => /\ pc'[p] = "done"
              /\ IF final_name[p] # "" /\ ~HasLen(Head(inbox[p]).answers)
                 THEN raised'[p] = "TypeError" /\ response'[p] = 500
                 ELSE GetsAnswers(p)
        /\ (Handles(p) /\ ~IsResultFor(p, Head(inbox[p])) /\ ~expired[p])
           => /\ pc'[p] = "wait"
              /\ response'[p] = 0
        /\ (pc[p] = "wait" /\ pc'[p] # "wait" /\ ~GetsAnswers(p))
           => \/ raised'[p] = "ConnectionError"
              \/ expired[p] /\ raised'[p] = "HTTPException504"
              \/ /\ raised'[p] = "TypeError"
                 /\ inbox[p] # <<>>
                 /\ IsResultFor(p, Head(inbox[p]))
                 /\ ~HasLen(Head(inbox[p]).answers)]_vars

C19_Witness ==
    \E p, q \in Reqs :
        /\ file_hash[p] # file_hash[q]
        /\ response[p] = 200
        /\ answers[p] = JArray(<<"answer 1">>)
        /\ pc[q] = "wait"
        /\ Stored(q)
        /\ inbox[q] = <<>>
        /\ printed[q] = WaitingLine
        /\ \E e \in BagToSet(sent) : e.filehash = file_hash[q]

(***************************************************************************)
(* C20: when shutil.move fails on the new-file path, meta.json is left as  *)
(* it was (no entry for the hash, next_id not advanced) and no work event  *)
(* is published, whatever the move left in the downloads directory;        *)
(* meta.json is written only by a request whose file is in the downloads   *)
(* directory.                                                              *)
(***************************************************************************)
C20_FailedMoveFrame ==
    [][/\ \A p \in Reqs :
            (pc[p] = "acquire" /\ pc'[p] = "done")
            => /\ meta' = meta
               /\ sent' = sent
               /\ inbox' = inbox
       /\ meta' # meta
            => \E p \in Reqs :
                /\ pc[p] = "save"
                /\ final_name[p] \in DOMAIN store
                /\ store[final_name[p]] = file_hash[p]]_vars

C20_Witness ==
    \E p \in Reqs :
        /\ MoveFailed(p)
        /\ response[p] = 500
        /\ meta = AbsentFile
        /\ DOMAIN store = {final_name[p]}
        /\ store[final_name[p]] = PartialContent
        /\ sent = EmptyBag
        /\ ~temp_exists[p]

(***************************************************************************)
(* C21: a request that has left run_hackrx, by a returned result, a        *)
(* timeout or any exception inside or outside the with block, does not     *)
(* hold file_lock.                                                         *)
(***************************************************************************)
C21_LockNotLeftHeld ==
    \A p \in Reqs : pc[p] = "done" => file_lock # p

C21_Witness ==
    \E p, q \in Reqs :
        /\ pc[p] = "done"
        /\ final_name[p] = ""
        /\ file_hash[p] # 0
        /\ raised[p] = "HTTPException504"
        /\ pc[q] = "done"
        /\ response[q] = 200
        /\ file_lock = NoOwner

(***************************************************************************)
(* C22: when a run_hackrx request has terminated, its downloaded temp file *)
(* no longer exists at the temp path, whichever way the request ended      *)
(* (here: the run_hackrx of src/handler/hackrx.py, whose finally clause    *)
(* removes the file named by temp_file).                                   *)
(***************************************************************************)
C22_TempFileGone ==
    (nh_pc = "done" /\ nh_response # 0) => ~nh_temp_exists
====
